---- MODULE Spec2Model ----
(***************************************************************************)
(* Model of conv2jxl's conversion engine (src/src/app/convert.rs and       *)
(* src/src/app/mod.rs): the shared cursor, the per-thread active slots,    *)
(* the pause gate, the two-try quality fallback of next_file and the       *)
(* single conversion attempt of ConversionState::next.                     *)
(*                                                                         *)
(* Each worker thread is a small state machine over pc[t]:                 *)
(*   "next_file"   about to execute idx.fetch_add(1)                       *)
(*   "set_active"  holds i, about to publish it in active[t]               *)
(*   "wait_paused" about to lock the pause mutex and test the flag         *)
(*   "cv_wait"     blocked in Condvar::wait                                *)
(*   "cv_woken"    returned from Condvar::wait, about to re-test the flag  *)
(*   "attempt"     past the gate: the external part of next() is running   *)
(*   "set_state"   about to call FileEntry::set_state                      *)
(*   "post"        set_state has returned: non_success / progress follow   *)
(*   "exit"        left the while loop of run(), about to store usize::MAX *)
(*   "done"        run() has returned                                      *)
(***************************************************************************)
EXTENDS Integers, Sequences, FiniteSets, TLC

\* ------------------------------------------------------------- bounds
MaxItems == 2
MaxWorkers == 2
\* how many failures the environment injects in one run (a failing probe,
\* reformat, encoder run or file-system call)
MaxFaults == 1
\* the parts of an --ext list
MaxParts == 3

\* usize::MAX, the "no file" value of ThreadState::file_idx, cut down to
\* the integer range of the checker; it is only ever compared for equality
\* and lies above every value the cursor can take.
UsizeMax == 2147483647

\* 2^24: up to here every integer is an f32
F32Exact == 16777216

\* Option<T>: None is the empty sequence, Some(x) the one-element sequence.
None == << >>
Some(x) == << x >>
unwrap_or(opt, default) == IF opt = None THEN default ELSE opt[1]

\* ------------------------------------------------------------- files
FileTypes == {"PNG", "JPEG", "TIFF"}

needs_conversion(ext) == ext \in {"TIFF", "TGA", "QOI", "BMP"}

\* The (category, size) pairs the scanned list is drawn from.  Sizes 1..3
\* lie below, on and above the retry floor of 2 used in ArgsSpace; a file
\* of 16 MiB is the smallest whose neighbour in size is not an f32.
FileKinds ==
    {[ext |-> "PNG", len |-> 1], [ext |-> "PNG", len |-> 2],
     [ext |-> "PNG", len |-> 3], [ext |-> "JPEG", len |-> 3],
     [ext |-> "TIFF", len |-> 3], [ext |-> "PNG", len |-> F32Exact]}

\* ------------------------------------------------------------- arguments
Ratio(n, d) == [num |-> n, den |-> d]

\* The argument sets explored.  quality_if_inefficient and
\* min_inefficient_size are Options; min_ratio is a rational.  Arguments
\* that a dry run never reads are held at one value when dry_run is set,
\* and the floor is varied only where a lower fallback quality makes the
\* code read it.  min_ratio is the default 1.0 or, without fallback, 2.0,
\* under which an output larger than its input is kept.
ArgsSpace ==
    {a \in [quality : {90},
            quality_if_inefficient : {None, Some(50), Some(90)},
            min_inefficient_size : {None, Some(2)},
            lossless_jpeg : BOOLEAN,
            dry_run : BOOLEAN,
            min_ratio : {Ratio(1, 1), Ratio(2, 1)}] :
        /\ a.min_ratio # Ratio(1, 1) =>
              /\ a.quality_if_inefficient = None
              /\ ~a.lossless_jpeg
        /\ a.dry_run =>
              /\ a.quality_if_inefficient = None
              /\ a.lossless_jpeg
        /\ a.min_inefficient_size # None => a.quality_if_inefficient = Some(50)}

VARIABLES
    args,          \* SharedState::args (immutable)
    files,         \* ConversionState::files: 0..N-1 -> [ext, len] (immutable)
    idx,           \* ConversionState::idx, the shared cursor
    active,        \* ConversionState::active[t].file_idx
    start_time,    \* ConversionState::active[t].start_time (ms since start)
    paused,        \* the bool under ConversionState::paused's mutex
    state,         \* FileEntry::state, the OnceLock outcome cell of each file
    pc,            \* position of each worker thread
    loc,           \* locals of next_file / next of each worker thread
    writes,        \* history: number of set_state calls per file
    tried,         \* history: per file, the tries made (quality, cjxl runs, result)
    claims,        \* history: how often fetch_add returned each value
    stopRequested, \* history: stop() has been called
    faultsLeft,    \* environment: how many more failures it may inject
    now,           \* program_start.elapsed().as_millis(), as last read
    last_active,   \* FileEntry::last_active of each file
    non_success,   \* ConversionState::non_success: set of <<last_active, index>>
    progress,      \* ConversionState::progress: per file type, the counters
    waits,         \* history: number of wait_paused calls made for each file
    ext_arg,       \* the --ext argument, as the parts s.split(',') yields
    extensions     \* Conv2JxlArgs::extensions: None until parsed

vars == <<args, files, idx, active, start_time, paused, state, pc, loc,
          writes, tried, claims, stopRequested, faultsLeft,
          now, last_active, non_success, progress, waits,
          ext_arg, extensions>>

N == Cardinality(DOMAIN files)
Items == DOMAIN files
Threads == DOMAIN active

\* ------------------------------------------------------------- outcomes
Outcome(tag, input, output, msg) ==
    [tag |-> tag, input |-> input, output |-> output, msg |-> msg]
Success(input, output) == Outcome("Success", input, output, "")
Warning(input, output, msg) == Outcome("Warning", input, output, msg)
Skipped == Outcome("Skipped", 0, 0, "")
Error(msg) == Outcome("Error", 0, 0, msg)
Inefficient(input, output) == Outcome("Inefficient", input, output, "")

\* ------------------------------------------------------------- next()
\* The spacing of the f32 values around n: 1 up to 2^24, doubling with
\* every further bit.
RECURSIVE Ulp(_)
Ulp(n) == IF n < F32Exact THEN 1 ELSE 2 * Ulp(n \div 2)

\* line 310: `as f32` of a u64, to the nearest value of the 24-bit
\* significand, a tie going to the even one
as_f32(n) ==
    LET u == Ulp(n)
        q == n \div u
        r == n % u IN
    IF 2 * r < u THEN q * u
    ELSE IF 2 * r > u THEN (q + 1) * u
    ELSE IF q % 2 = 0 THEN q * u ELSE (q + 1) * u

\* lines 310-312: ratio > args.min_ratio, with ratio = output as f32 /
\* input as f32.  The quotient of the two casts is rounded to f32 as well:
\* for a min_ratio in [1, 2) with an even significand (the default 1.0 is
\* one) it comes out above min_ratio exactly when the true quotient lies
\* more than half a spacing, 2^-24, above it.  Sizes stay below 2^31.
RatioExceeds(output, input, min_ratio) ==
    LET o == as_f32(output)
        i == as_f32(input)
        d == o * min_ratio.den - i * min_ratio.num IN
    /\ d > 0
    /\ d >= 128 \/ d * F32Exact > i * min_ratio.den

\* The size the encoder's output file turns out to have: empty, one byte
\* below the input, equal to it, one byte above it.
OutputSize(input, o) ==
    CASE o = "empty" -> 0
      [] o = "smaller" -> input - 1
      [] o = "equal" -> input
      [] o = "larger" -> input + 1

\* What the file system and the external programs answer during one call
\* of next(), in the order the code asks:
\*   dest_blocked  output_path.exists() && !args.overwrite
\*   probe         imagesize::size fails, or lies outside or inside the
\*                 bounds ("inside" also stands for no bound being set)
\*   conv_ok       conv2png succeeds
\*   cmd           cjxl runs and exits 0, exits nonzero, or cannot be run
\*   open_ok       the output file can be opened
\*   meta_ok       its metadata can be read
\*   output        its size
\*   remove_ok     remove_file(output_path) succeeds
\*   times_fail    set_times on the output fails
\*   source_fail   deleting or truncating the source fails
AllAnswers ==
    [dest_blocked : BOOLEAN, probe : {"inside", "failed", "outside"},
     conv_ok : BOOLEAN, cmd : {"ok", "failed", "spawn_error"},
     open_ok : BOOLEAN, meta_ok : BOOLEAN,
     output : {"empty", "smaller", "equal", "larger"},
     remove_ok : BOOLEAN, times_fail : BOOLEAN, source_fail : BOOLEAN]

\* An answer the code never gets to ask for is left at its default, so that
\* each way through next() is listed once.
Answers ==
    {e \in AllAnswers :
        /\ (e.dest_blocked \/ e.probe # "inside" \/ ~e.conv_ok) =>
              e.cmd = "ok" /\ e.open_ok /\ e.meta_ok /\ e.output = "equal"
              /\ e.remove_ok /\ ~e.times_fail /\ ~e.source_fail
        /\ e.dest_blocked => e.probe = "inside" /\ e.conv_ok
        /\ e.probe # "inside" => e.conv_ok
        /\ e.cmd # "ok" =>
              e.open_ok /\ e.meta_ok /\ e.output = "equal" /\ e.remove_ok
              /\ ~e.times_fail /\ ~e.source_fail
        /\ ~e.open_ok =>
              e.meta_ok /\ e.output = "equal" /\ e.remove_ok
              /\ ~e.times_fail /\ ~e.source_fail
        /\ ~e.meta_ok => e.output = "equal" /\ ~e.times_fail /\ ~e.source_fail
        /\ e.output = "empty" => ~e.times_fail /\ ~e.source_fail}

\* What one call of ConversionState::next hands back once it is past
\* wait_paused:
\*   outcome     Some(o) when set_state(o) is called, None when it is not
\*   inefficient the value of *inefficient on return
\*   post        the bookkeeping that follows set_state
\*   cjxl        how many times the encoder was run (0 or 1)
\*   left        whether a file produced by the encoder is left on disk
\*   kind        which way the attempt ended
Result(outcome, inefficient, post, cjxl, left, kind) ==
    [outcome |-> outcome, inefficient |-> inefficient, post |-> post,
     cjxl |-> cjxl, left |-> left, kind |-> kind]

\* the results that stem from a failure of the environment
Failure(r) ==
    \/ r.kind \in {"ProbeError", "ReformatError", "Error"}
    \/ /\ r.kind = "Accepted"
       /\ r.outcome[1].msg \in {"Failed to set file times",
                                "Failed to delete or truncate source file"}

NoResult == Result(None, FALSE, "none", 0, FALSE, "")

\* (a slip: a failure of set_times goes unreported)
WarningOfSourceOnly(inefficient, times_fail, source_fail) ==
    IF source_fail THEN Some("Failed to delete or truncate source file")
    ELSE IF inefficient THEN Some("Used lower quality due to inefficiency")
    ELSE None

\* lines 341-380: the warning of an accepted conversion; each later
\* assignment overwrites the earlier one.
WarningOf(inefficient, times_fail, source_fail) ==
    IF source_fail THEN Some("Failed to delete or truncate source file")
    ELSE IF times_fail THEN Some("Failed to set file times")
    ELSE IF inefficient THEN Some("Used lower quality due to inefficiency")
    ELSE None

\* (a slip: the rejected first try already writes Inefficient)
RecordsRejectionAlways(inefficient) == TRUE

\* line 330: if *inefficient { set_state(Inefficient) ... }
RecordsRejection(inefficient) == inefficient

\* (a slip: the dry-run test is missing and the encoder runs)
DryRunIgnored(a) == FALSE

\* line 203: if args.dry_run { set_state(Success(input, input)); return }
DryRunReturns(a) == a.dry_run

\* lines 310-399, for an output file of `output` > 0 bytes
AfterVerify(src, a, inefficient, output, remove_ok, times_fail, source_fail) ==
    IF RatioExceeds(output, src.len, a.min_ratio)
    THEN IF ~remove_ok
         THEN Result(Some(Error("Converted file is larger, and failed to delete it")),
                     inefficient, "add_error", 1, TRUE, "Error")
         ELSE IF RecordsRejection(inefficient)
              THEN Result(Some(Inefficient(src.len, output)), TRUE,
                          "add_inefficient", 1, FALSE, "Rejected")
              ELSE Result(None, TRUE, "none", 1, FALSE, "Rejected")
    ELSE LET warning == WarningOf(inefficient, times_fail, source_fail) IN
         Result(Some(IF warning = None
                        THEN Success(src.len, output)
                        ELSE Warning(src.len, output, warning[1])),
                inefficient, "accepted", 1, TRUE, "Accepted")

\* lines 209-308: cmd.output() and the verification of the output file
Encode(src, a, inefficient, e) ==
    IF e.cmd = "failed"
    THEN Result(Some(Error("Conversion command failed")),
                inefficient, "add_error", 1, FALSE, "Error")
    ELSE IF e.cmd = "spawn_error"
    THEN Result(Some(Error("Failed to execute conversion command")),
                inefficient, "add_error", 1, FALSE, "Error")
    ELSE IF ~e.open_ok
    THEN Result(Some(Error("Failed to open converted file for verification.")),
                inefficient, "add_error", 1, TRUE, "Error")
    ELSE IF ~e.meta_ok
    THEN IF ~e.remove_ok
         THEN Result(Some(Error("Failed to get metadata, and failed to delete corrupted file")),
                     inefficient, "add_error", 1, TRUE, "Error")
         ELSE Result(Some(Error("Failed to get metadata. The output file has been deleted.")),
                     inefficient, "add_error", 1, FALSE, "Error")
    ELSE IF OutputSize(src.len, e.output) = 0
    THEN IF ~e.remove_ok
         THEN Result(Some(Error("Conversion produced an empty file, and failed to delete it")),
                     inefficient, "add_error", 1, TRUE, "Error")
         ELSE Result(Some(Error("Conversion produced an empty file. The empty file has been deleted.")),
                     inefficient, "add_error", 1, FALSE, "Error")
    ELSE AfterVerify(src, a, inefficient, OutputSize(src.len, e.output),
                     e.remove_ok, e.times_fail, e.source_fail)

\* lines 132-207: the checks before the encoder is run.  The value is None
\* when the call goes on to the encoder.
BeforeEncode(src, a, inefficient, e) ==
    IF e.dest_blocked
    THEN Some(Result(Some(Skipped), inefficient, "skipped", 0, FALSE, "Skipped"))
    ELSE IF e.probe = "failed"
    THEN Some(Result(Some(Error("Failed to read image dimensions.")),
                     inefficient, "add_error", 0, FALSE, "ProbeError"))
    ELSE IF e.probe = "outside"
    THEN Some(Result(Some(Skipped), inefficient, "skipped", 0, FALSE, "Skipped"))
    ELSE IF needs_conversion(src.ext) /\ ~e.conv_ok
    THEN Some(Result(Some(Error("Failed to convert image to PNG")),
                     inefficient, "add_error", 0, FALSE, "ReformatError"))
    ELSE IF DryRunReturns(a)
    THEN Some(Result(Some(Success(src.len, src.len)), inefficient, "none", 0,
                     FALSE, "DryRun"))
    ELSE None

\* lines 130-399: next() after wait_paused, as a function of the answers
next(src, a, inefficient, e) ==
    LET early == BeforeEncode(src, a, inefficient, e) IN
    IF early # None THEN early[1] ELSE Encode(src, a, inefficient, e)

\* ------------------------------------------------------------- next_file
\* line 87
LosslessJpeg(a, src) == a.lossless_jpeg /\ src.ext = "JPEG"

\* lines 93-95: the quality of the coming try
QualityOfTry(quality, lossless_jpeg) == IF lossless_jpeg THEN 100 ELSE quality

\* (a slip: every try is followed by the fallback test)
BreaksNever(inefficient, lossless_jpeg) == FALSE

\* (a slip: the lossless case is not excepted from the retry)
BreaksOnlyIfEfficient(inefficient, lossless_jpeg) == ~inefficient

\* line 101: if !inefficient || lossless_jpeg { break }
BreaksAfterTry(inefficient, lossless_jpeg) == ~inefficient \/ lossless_jpeg

\* line 111: the file is large enough to bother
LargeEnough(a, len) == unwrap_or(a.min_inefficient_size, 0) < len

\* (a slip: the fallback quality is not compared with the one just tried)
FallbackAppliesAnyQuality(a, quality, len) ==
    /\ a.quality_if_inefficient # None
    /\ LargeEnough(a, len)

\* lines 106-113: a fallback quality is given, is lower, and the file is
\* large enough
FallbackApplies(a, quality, len) ==
    /\ a.quality_if_inefficient # None
    /\ a.quality_if_inefficient[1] < quality
    /\ LargeEnough(a, len)

\* whether the while loop of next_file runs another try
TriesAgain(a, src, quality, inefficient, lossless_jpeg, tries) ==
    /\ ~BreaksAfterTry(inefficient, lossless_jpeg)
    /\ FallbackApplies(a, quality, src.len)
    /\ tries < 2

\* ------------------------------------------------- the extension filter
\* cli.rs: a string is a sequence of one-character strings.

\* decl_filetypes!(...): FileType::all()
FileType_all ==
    {"JXL", "PPM", "PNM", "PFM", "PAM", "PGX", "PNG", "APNG", "GIF", "JPEG",
     "TIFF", "TGA", "QOI", "BMP"}

Uppercase ==
    <<"A", "B", "C", "D", "E", "F", "G", "H", "I", "J", "K", "L", "M",
      "N", "O", "P", "Q", "R", "S", "T", "U", "V", "W", "X", "Y", "Z">>

Lowercase ==
    <<"a", "b", "c", "d", "e", "f", "g", "h", "i", "j", "k", "l", "m",
      "n", "o", "p", "q", "r", "s", "t", "u", "v", "w", "x", "y", "z">>

to_ascii_lowercase(c) ==
    IF \E k \in DOMAIN Uppercase : Uppercase[k] = c
    THEN Lowercase[CHOOSE k \in DOMAIN Uppercase : Uppercase[k] = c]
    ELSE c

\* str::eq_ignore_ascii_case
eq_ignore_ascii_case(a, b) ==
    /\ Len(a) = Len(b)
    /\ \A k \in DOMAIN a : to_ascii_lowercase(a[k]) = to_ascii_lowercase(b[k])

is_whitespace(c) == c \in {" ", "\t"}

\* str::trim: the slice between the first and the last character that is
\* not white space
trim(s) ==
    LET keep == {k \in DOMAIN s : ~is_whitespace(s[k])} IN
    IF keep = {} THEN <<>>
    ELSE LET lo == CHOOSE k \in keep : \A m \in keep : k <= m
             hi == CHOOSE k \in keep : \A m \in keep : m <= k IN
         SubSeq(s, lo, hi)

\* str::split(','): the pieces between the commas, empty ones included
RECURSIVE split(_)
split(s) ==
    LET commas == {k \in DOMAIN s : s[k] = ","} IN
    IF commas = {} THEN <<s>>
    ELSE LET c == CHOOSE k \in commas : \A m \in commas : k <= m IN
         <<SubSeq(s, 1, c - 1)>> \o split(SubSeq(s, c + 1, Len(s)))

\* lines 374-390: the PATTERNS of FileType::from_str, in their order
PATTERNS ==
    << <<(<<"j", "x", "l">>), "JXL">>,
       <<(<<"p", "p", "m">>), "PPM">>,
       <<(<<"p", "n", "m">>), "PNM">>,
       <<(<<"p", "f", "m">>), "PFM">>,
       <<(<<"p", "a", "m">>), "PAM">>,
       <<(<<"p", "g", "x">>), "PGX">>,
       <<(<<"p", "n", "g">>), "PNG">>,
       <<(<<"a", "p", "n", "g">>), "APNG">>,
       <<(<<"g", "i", "f">>), "GIF">>,
       <<(<<"j", "p", "e", "g">>), "JPEG">>,
       <<(<<"j", "p", "g">>), "JPEG">>,
       <<(<<"t", "i", "f", "f">>), "TIFF">>,
       <<(<<"t", "i", "f">>), "TIFF">>,
       <<(<<"t", "g", "a">>), "TGA">>,
       <<(<<"q", "o", "i">>), "QOI">> >>

\* lines 402-421: impl Display for FileType, the string written for each
\* variant
FileType_fmt(t) ==
    CASE t = "JXL" -> <<"j", "x", "l">>
      [] t = "PPM" -> <<"p", "p", "m">>
      [] t = "PNM" -> <<"p", "n", "m">>
      [] t = "PFM" -> <<"p", "f", "m">>
      [] t = "PAM" -> <<"p", "a", "m">>
      [] t = "PGX" -> <<"p", "g", "x">>
      [] t = "PNG" -> <<"p", "n", "g">>
      [] t = "APNG" -> <<"a", "p", "n", "g">>
      [] t = "GIF" -> <<"g", "i", "f">>
      [] t = "JPEG" -> <<"j", "p", "e", "g">>
      [] t = "TIFF" -> <<"t", "i", "f", "f">>
      [] t = "TGA" -> <<"t", "g", "a">>
      [] t = "QOI" -> <<"q", "o", "i">>
      [] t = "BMP" -> <<"b", "m", "p">>

\* lines 370-400: impl FromStr for FileType; None stands for
\* Err(InvalidFileType)
FileType_from_str(s) ==
    LET hits == {k \in DOMAIN PATTERNS : eq_ignore_ascii_case(s, PATTERNS[k][1])} IN
    IF hits = {} THEN None
    ELSE Some(PATTERNS[CHOOSE k \in hits : \A m \in hits : k <= m][2])

Ok(set) == [ok |-> TRUE, set |-> set]
Err == [ok |-> FALSE, set |-> {}]

\* lines 442-451: what "*" does to the set before the part is parsed
Star(set) ==
    IF "JXL" \in set THEN set \cup FileType_all
    ELSE (set \cup FileType_all) \ {"JXL"}

\* lines 438-453: the loop over the parts; part.parse::<FileType>()? is
\* reached for every part, "*" included, and leaves the function on Err
RECURSIVE from_str_loop(_, _, _)
from_str_loop(parts, k, set) ==
    IF k > Len(parts) THEN Ok(set)
    ELSE LET part == trim(parts[k])
             starred == IF part = <<"*">> THEN Star(set) ELSE set
             parsed == FileType_from_str(part) IN
         IF parsed = None THEN Err
         ELSE from_str_loop(parts, k + 1, starred \cup {parsed[1]})

\* lines 431-456: impl FromStr for FileTypes
FileTypes_from_str(s) == from_str_loop(split(s), 1, {})

\* lines 275-281: FileTypes::default()
FileTypes_default == Ok({"PNG"})

\* ------------------------------------------------------------- state
\* the sum of f over S
RECURSIVE Sum(_, _)
Sum(f, S) ==
    IF S = {} THEN 0
    ELSE LET x == CHOOSE y \in S : TRUE IN f[x] + Sum(f, S \ {x})

\* mod.rs lines 55-72: the counters of one file type, all zero at the start
\* (the elapsed time is not followed)
NoProgress ==
    [processed |-> 0, errored |-> 0, inefficient |-> 0,
     total_bytes |-> 0, input_bytes |-> 0, output_bytes |-> 0]

\* scan.rs lines 231-238: total_bytes of a type is seeded with the sizes of
\* its files
SeededBytes(fs, ext) ==
    Sum([i \in DOMAIN fs |-> fs[i].len], {i \in DOMAIN fs : fs[i].ext = ext})

\* (a slip: the conversion is not counted)
progress_add_lost(p, input, output) == p

\* mod.rs lines 75-80: ConversionProgress::add
progress_add(p, input, output) ==
    [p EXCEPT !.input_bytes = @ + input,
              !.output_bytes = @ + output,
              !.processed = @ + 1]

\* (a slip: the error is not counted)
progress_errored_lost(p, size) == p

\* (a slip: the size is taken out of the budget twice)
progress_errored_twice(p, size) ==
    [p EXCEPT !.errored = @ + 1, !.total_bytes = @ - 2 * size]

\* mod.rs lines 82-85: ConversionProgress::errored
progress_errored(p, size) ==
    [p EXCEPT !.errored = @ + 1, !.total_bytes = @ - size]

\* (a slip: the size stays in the budget)
progress_inefficient_kept(p, size) == [p EXCEPT !.inefficient = @ + 1]

\* mod.rs lines 87-90: ConversionProgress::inefficient
progress_inefficient(p, size) ==
    [p EXCEPT !.inefficient = @ + 1, !.total_bytes = @ - size]

\* (a slip: nothing is inserted)
insert_lost(set, time, i) == set

\* (a slip: the index is inserted under a second key as well)
insert_twice(set, time, i) == set \cup {<<time, i>>, <<time + 1, i>>}

\* BTreeSet::insert of (Reverse(last_active), i)
insert(set, time, i) == set \cup {<<time, i>>}

Idle == [i |-> UsizeMax, quality |-> 0, inefficient |-> FALSE, tries |-> 0,
         lossless_jpeg |-> FALSE, res |-> NoResult, time |-> 0]

\* The arguments and the file list of the runs with several files or
\* several threads: a fallback quality that applies, lossless JPEG on, and
\* files that alternate between a PNG and a JPEG.
BatchArgs ==
    [quality |-> 90, quality_if_inefficient |-> Some(50),
     min_inefficient_size |-> None, lossless_jpeg |-> TRUE, dry_run |-> FALSE,
     min_ratio |-> Ratio(1, 1)]

BatchFile(i) ==
    IF i % 2 = 0 THEN [ext |-> "PNG", len |-> 3] ELSE [ext |-> "JPEG", len |-> 3]

\* scan.rs lines 254-265 build the state: cursor 0, every slot usize::MAX,
\* not paused, no outcome set.  Every spawned thread is about to enter
\* run().  One thread with one file is explored for every argument set and
\* file kind; the other shapes, up to MaxWorkers threads and MaxItems
\* files, with BatchArgs and BatchFile.
InitShape(p, n) ==
    /\ active = [t \in 0..(p - 1) |-> UsizeMax]
    /\ start_time = [t \in 0..(p - 1) |-> 0]
    /\ IF p = 1 /\ n = 1
       THEN /\ args \in ArgsSpace
            /\ files \in [0..0 -> FileKinds]
       ELSE /\ args = BatchArgs
            /\ files = [i \in 0..(n - 1) |-> BatchFile(i)]
    /\ idx = 0
    /\ paused = FALSE
    /\ state = [i \in Items |-> None]
    /\ pc = [t \in Threads |-> "next_file"]
    /\ loc = [t \in Threads |-> Idle]
    /\ now = 0
    /\ last_active = [i \in Items |-> 0]
    /\ non_success = {}
    /\ progress = [ext \in FileTypes |->
                      [NoProgress EXCEPT !.total_bytes = SeededBytes(files, ext)]]
    /\ waits = [i \in Items |-> 0]
    /\ writes = [i \in Items |-> 0]
    /\ tried = [i \in Items |-> << >>]
    /\ claims = [v \in 0..(n + p) |-> 0]
    /\ stopRequested = FALSE

\* cli.rs line 127: without --ext the filter is FileTypes::default()
NoExt ==
    /\ ext_arg = None
    /\ extensions = Some(FileTypes_default)

Init ==
    /\ \E p \in 1..MaxWorkers, n \in 0..MaxItems : InitShape(p, n)
    /\ faultsLeft = MaxFaults
    /\ NoExt

\* ------------------------------------------------------------- workers
\* (a slip: the cursor moves on by two)
fetch_add_two(v) == v + 2

\* AtomicUsize::fetch_add(1): the value the cursor holds afterwards
fetch_add(v) == v + 1

\* line 67: let i = self.idx.fetch_add(1, Relaxed)
FetchAdd(t) ==
    /\ pc[t] = "next_file"
    /\ idx' = fetch_add(idx)
    /\ loc' = [loc EXCEPT ![t].i = idx]
    /\ pc' = [pc EXCEPT ![t] = "set_active"]
    /\ claims' = [claims EXCEPT ![idx] = @ + 1]
    /\ UNCHANGED <<args, files, active, start_time, paused, state, writes, tried,
                   stopRequested, faultsLeft,
                   now, last_active, non_success, progress, waits,
                   ext_arg, extensions>>

\* (a slip: the shared cursor is tested in place of the value taken)
PastEndOfCursor(i, cursor, len) == cursor >= len

\* line 76: if i >= self.files.len(); the cursor itself is not read again
PastEnd(i, cursor, len) == i >= len

\* (a slip: the gate is passed before the first try only)
NextEntryFirstOnly(tries) == IF tries = 1 THEN "wait_paused" ELSE "attempt"

\* line 128: every call of next() begins with wait_paused, whichever try
\* it is
NextEntry(tries) == "wait_paused"

\* lines 70-97: publish i in the thread's slot, with the time of the claim
\* (the clock as it was last read; it moves on where set_state reads it);
\* past the end, set *stop and leave the loop of run(); otherwise set up
\* the first try.
SetActive(t) ==
    /\ pc[t] = "set_active"
    /\ active' = [active EXCEPT ![t] = loc[t].i]
    /\ start_time' = [start_time EXCEPT ![t] = now]
    /\ IF PastEnd(loc[t].i, idx, N)
       THEN /\ pc' = [pc EXCEPT ![t] = "exit"]
            /\ loc' = [loc EXCEPT ![t] = Idle]
       ELSE LET src == files[loc[t].i]
                lossless_jpeg == LosslessJpeg(args, src) IN
            /\ pc' = [pc EXCEPT ![t] = NextEntry(1)]
            /\ loc' = [loc EXCEPT ![t] =
                         [i |-> loc[t].i,
                          quality |-> QualityOfTry(args.quality, lossless_jpeg),
                          inefficient |-> FALSE,
                          tries |-> 1,
                          lossless_jpeg |-> lossless_jpeg,
                          res |-> NoResult,
                          time |-> 0]]
    /\ UNCHANGED <<args, files, idx, paused, state, writes, tried, claims,
                   stopRequested, faultsLeft,
                   now, last_active, non_success, progress, waits,
                   ext_arg, extensions>>

\* (a slip: the flag is not tested)
GateNeverClosed(p) == FALSE

\* line 61: while *paused
GateClosed(p) == p

\* lines 57-64: wait_paused, one test of the flag under the mutex; the
\* thread either goes on or blocks in cvar.wait.
WaitPaused(t) ==
    /\ pc[t] \in {"wait_paused", "cv_woken"}
    /\ pc' = [pc EXCEPT ![t] = IF GateClosed(paused) THEN "cv_wait" ELSE "attempt"]
    /\ waits' = [waits EXCEPT ![loc[t].i] =
                    IF pc[t] = "wait_paused" THEN @ + 1 ELSE @]
    /\ UNCHANGED <<args, files, idx, active, start_time, paused, state, loc, writes,
                   tried, claims, stopRequested, faultsLeft,
                   now, last_active, non_success, progress,
                   ext_arg, extensions>>

\* Condvar::wait may return without a notification.
SpuriousWakeup(t) ==
    /\ pc[t] = "cv_wait"
    /\ pc' = [pc EXCEPT ![t] = "cv_woken"]
    /\ UNCHANGED <<args, files, idx, active, start_time, paused, state, loc, writes,
                   tried, claims, stopRequested, faultsLeft,
                   now, last_active, non_success, progress, waits,
                   ext_arg, extensions>>

\* lines 99-116 of next_file, once next() has returned with *inefficient =
\* inefficient: either another try at the fallback quality or the end of
\* next_file, and with it the next fetch_add.
AfterTry(t, inefficient) ==
    LET l == loc[t]
        src == files[l.i] IN
    IF TriesAgain(args, src, l.quality, inefficient, l.lossless_jpeg, l.tries)
    THEN /\ pc' = [pc EXCEPT ![t] = NextEntry(l.tries + 1)]
         /\ loc' = [loc EXCEPT ![t] =
                      [l EXCEPT !.quality = QualityOfTry(args.quality_if_inefficient[1],
                                                         l.lossless_jpeg),
                                !.inefficient = inefficient,
                                !.tries = @ + 1,
                                !.res = NoResult]]
    ELSE /\ pc' = [pc EXCEPT ![t] = "next_file"]
         /\ loc' = [loc EXCEPT ![t] = Idle]

\* conv2png.rs line 10, convert.rs lines 164-166: the call got as far as
\* conv2png, which creates the NamedTempFile
TmpCreated(src, e) ==
    ~e.dest_blocked /\ e.probe = "inside" /\ needs_conversion(src.ext)

\* (a slip: the file outlives a return that does not pass line 211)
DroppedAtReturnNever(r) == FALSE

\* The NamedTempFile is a local of conv2png until it is returned and of
\* next() afterwards; a return ends its scope and its Drop removes the
\* file: conv2png's return with Err (conv2png.rs lines 9-41), the dry
\* run's return (convert.rs line 206).
DroppedAtReturn(r) == r.kind \in {"ReformatError", "DryRun"}

\* line 211: drop(tmp_file), right after cmd.output()
DroppedAfterEncode(r) == r.cjxl = 1

\* the intermediate file of the call that returned r: whether one was
\* created and whether it is still there on return
TmpFile(src, r, e) ==
    [made |-> TmpCreated(src, e),
     left |-> TmpCreated(src, e) /\ ~DroppedAfterEncode(r) /\ ~DroppedAtReturn(r)]

\* lines 354-380 were reached and set_times on the output, or the delete
\* or truncation of the source, failed
Degraded(r, e) == r.kind = "Accepted" /\ (e.times_fail \/ e.source_fail)

\* next() returns r, having got the answers e: the try is logged; a result with an outcome goes on to
\* set_state, one without goes back to next_file's loop.
Return(t, r, e) ==
    LET l == loc[t] IN
    /\ tried' = [tried EXCEPT ![l.i] =
                    Append(@, [quality |-> l.quality, cjxl |-> r.cjxl,
                               kind |-> r.kind, left |-> r.left,
                               degraded |-> Degraded(r, e),
                               tmp |-> TmpFile(files[l.i], r, e)])]
    /\ IF r.outcome # None
       THEN /\ pc' = [pc EXCEPT ![t] = "set_state"]
            /\ loc' = [loc EXCEPT ![t].res = r]
       ELSE AfterTry(t, r.inefficient)

\* lines 130-399: the body of next() after wait_paused, up to its call of
\* set_state (or its return without one).
Attempt(t) ==
    /\ pc[t] = "attempt"
    /\ \E e \in Answers :
         LET r == next(files[loc[t].i], args, loc[t].inefficient, e) IN
         /\ Failure(r) => faultsLeft > 0
         /\ faultsLeft' = IF Failure(r) THEN faultsLeft - 1 ELSE faultsLeft
         /\ Return(t, r, e)
    /\ UNCHANGED <<args, files, idx, active, start_time, paused, state, writes, claims,
                   stopRequested,
                   now, last_active, non_success, progress, waits,
                   ext_arg, extensions>>

\* mod.rs lines 46-51: OnceLock::set keeps the first value and reports a
\* second write as Err, which set_state discards.
OnceLockSet(cell, outcome) == IF cell = None THEN Some(outcome) ELSE cell

\* The clock is read (it has stood still or moved on by a millisecond since
\* it was last read), stored in last_active and handed back to the caller.
SetState(t) ==
    /\ pc[t] = "set_state"
    /\ \E elapsed \in now..(now + 1) :
         LET l == loc[t] IN
         /\ now' = elapsed
         /\ last_active' = [last_active EXCEPT ![l.i] = elapsed]
         /\ state' = [state EXCEPT ![l.i] = OnceLockSet(@, l.res.outcome[1])]
         /\ writes' = [writes EXCEPT ![l.i] = @ + 1]
         /\ IF l.res.post = "none"
            THEN AfterTry(t, l.res.inefficient)
            ELSE /\ pc' = [pc EXCEPT ![t] = "post"]
                 /\ loc' = [loc EXCEPT ![t].time = elapsed]
    /\ UNCHANGED <<args, files, idx, active, start_time, paused, tried, claims,
                   stopRequested, faultsLeft, non_success, progress, waits,
                   ext_arg, extensions>>

\* lines 43-48 and 50-55 (add_error, add_inefficient), 139 and 157 (a
\* skipped file), 392-398 (an accepted one): what next() does with the
\* value set_state returned, then the rest of next_file's loop.
Post(t) ==
    /\ pc[t] = "post"
    /\ LET l == loc[t]
           ext == files[l.i].ext
           is_warning == l.res.outcome[1].tag = "Warning" IN
       /\ progress' =
             [progress EXCEPT ![ext] =
                 CASE l.res.post = "add_error" ->
                          progress_errored(@, files[l.i].len)
                   [] l.res.post = "add_inefficient" ->
                          progress_inefficient(@, files[l.i].len)
                   [] l.res.post = "accepted" ->
                          progress_add(@, files[l.i].len, l.res.outcome[1].output)
                   [] OTHER -> @]
       /\ non_success' =
             IF l.res.post = "accepted" /\ ~is_warning
             THEN non_success
             ELSE insert(non_success, l.time, l.i)
    /\ AfterTry(t, loc[t].res.inefficient)
    /\ UNCHANGED <<args, files, idx, active, start_time, paused, state, writes, tried,
                   claims, stopRequested, faultsLeft, now, last_active, waits,
                   ext_arg, extensions>>

\* what run() stores in the slot of a thread that leaves its loop
\* (a slip: the slot keeps the index that was past the end)
InactiveSlotKept(i) == i

\* lines 16-18: file_idx.store(usize::MAX)
InactiveSlot(i) == UsizeMax

\* (a variant: the caller runs run() again for as long as the pool runs)
AfterRunAgain == "next_file"

\* Where a worker is once run() has returned.  The code that spawns the
\* workers and calls run() is not part of the sources at hand; the worker
\* loop is left for good, so run() is entered once per worker.
AfterRun == "done"

\* lines 15-18 of run(): mark this thread as inactive
Exit(t) ==
    /\ pc[t] = "exit"
    /\ active' = [active EXCEPT ![t] = InactiveSlot(@)]
    /\ pc' = [pc EXCEPT ![t] = AfterRun]
    /\ UNCHANGED <<args, files, idx, start_time, paused, state, loc, writes, tried,
                   claims, stopRequested, faultsLeft,
                   now, last_active, non_success, progress, waits,
                   ext_arg, extensions>>

\* ------------------------------------------------------------- controls
\* (a slip: the cursor is reset instead of moved to the end)
StopTargetZero(len) == 0

\* line 40: self.idx.store(self.files.len())
StopTarget(len) == len

\* lines 39-41
Stop ==
    /\ idx' = StopTarget(N)
    /\ stopRequested' = TRUE
    /\ UNCHANGED <<args, files, active, start_time, paused, state, pc, loc, writes,
                   tried, claims, faultsLeft,
                   now, last_active, non_success, progress, waits,
                   ext_arg, extensions>>

\* (a slip: notify_one in place of notify_all)
NotifiedOne(waiting) ==
    IF waiting = {} THEN {} ELSE {CHOOSE t \in waiting : TRUE}

\* mod.rs line 154: cvar.notify_all() wakes every thread blocked in wait
Notified(waiting) == waiting

\* mod.rs lines 147-156
TogglePause ==
    /\ paused' = ~paused
    /\ LET waiting == {t \in Threads : pc[t] = "cv_wait"}
           woken == IF ~paused' THEN Notified(waiting) ELSE {} IN
       pc' = [t \in Threads |-> IF t \in woken THEN "cv_woken" ELSE pc[t]]
    /\ UNCHANGED <<args, files, idx, active, start_time, state, loc, writes, tried,
                   claims, stopRequested, faultsLeft,
                   now, last_active, non_success, progress, waits,
                   ext_arg, extensions>>

\* --------------------------------------------------------------- stats
\* render.rs lines 479-483: a file type whose total_bytes is 0 is passed
\* over by the loop of App::stats
Counted(p) == {ext \in DOMAIN p : p[ext].total_bytes # 0}

\* render.rs lines 476-526: what App::stats adds up over the file types it
\* does not pass over, whether the u64 subtraction of line 513 goes below
\* zero for one of them, and whether the progress it reports is exactly 1
stats(p) ==
    LET types == Counted(p)
        total_bytes == Sum([ext \in DOMAIN p |-> p[ext].total_bytes], types)
        input_bytes == Sum([ext \in DOMAIN p |-> p[ext].input_bytes], types) IN
    [processed |-> Sum([ext \in DOMAIN p |-> p[ext].processed], types),
     errored |-> Sum([ext \in DOMAIN p |-> p[ext].errored], types),
     inefficient |-> Sum([ext \in DOMAIN p |-> p[ext].inefficient], types),
     total_bytes |-> total_bytes,
     input_bytes |-> input_bytes,
     output_bytes |-> Sum([ext \in DOMAIN p |-> p[ext].output_bytes], types),
     underflow |-> \E ext \in types : p[ext].input_bytes < p[ext].output_bytes,
     progress_is_one |-> total_bytes = 0 \/ input_bytes = total_bytes]

\* u64::saturating_sub
saturating_sub(a, b) == IF a > b THEN a - b ELSE 0

\* render.rs lines 516-519: what App::stats takes off the estimated time at
\* the time `time` of the frame, one term for every slot of `active`
eta_reduction(starts, time) ==
    Sum([t \in DOMAIN starts |-> saturating_sub(time, starts[t])],
        DOMAIN starts)

\* ------------------------------------------------------------- display
\* Ord of (Reverse<u64>, usize): the later time first, then the lower index
Before(a, b) == a[1] > b[1] \/ (a[1] = b[1] /\ a[2] < b[2])

\* BTreeSet::iter: the entries in ascending order
RECURSIVE Iter(_)
Iter(set) ==
    IF set = {} THEN << >>
    ELSE LET first == CHOOSE a \in set : \A b \in set \ {a} : Before(a, b) IN
         <<first>> \o Iter(set \ {first})

\* Iterator::rev
Rev(seq) == [k \in 1..Len(seq) |-> seq[Len(seq) + 1 - k]]

\* render.rs lines 387-399: the order in which the Errors, Warnings and
\* Inefficient tabs list the entries
DisplayOrder == Rev(Iter(non_success))

\* lines 31-37
completed ==
    /\ idx >= N
    /\ \A t \in Threads : active[t] = UsizeMax

Step(t) ==
    \/ FetchAdd(t)
    \/ SetActive(t)
    \/ WaitPaused(t)
    \/ Attempt(t)
    \/ SetState(t)
    \/ Post(t)
    \/ Exit(t)

Next ==
    \/ \E t \in Threads : Step(t)
    \/ \E t \in Threads : SpuriousWakeup(t)
    \/ TogglePause
    \/ Stop

Spec == Init /\ [][Next]_vars

\* The scheduler runs every thread that can take a step; the encoder and
\* the reformatter return.  Nothing obliges the user to toggle the pause or
\* to stop, nor the condition variable to wake a thread spuriously.
Fairness == \A t \in 0..(MaxWorkers - 1) : WF_vars(t \in Threads /\ Step(t))

\* The runs checked for progress start as Init does, with an environment
\* that injects no failure.
FairInit ==
    /\ \E p \in 1..MaxWorkers, n \in 0..MaxItems : InitShape(p, n)
    /\ faultsLeft = 0
    /\ NoExt

FairSpec == FairInit /\ [][Next]_vars /\ Fairness

\* --------------------------------------------- parsing the command line
\* The parts an --ext argument is made of here: names in both cases, with
\* and without white space around them, the star, a type that Display
\* writes but PATTERNS lacks, and a name that is no type.
ExtWords ==
    { <<"*">>,
      <<"j", "x", "l">>,
      <<"p", "n", "g">>,
      <<"J", "P", "G">>,
      <<" ", "t", "i", "f", "f">>,
      <<"b", "m", "p">>,
      <<"w", "e", "b", "p">> }

RECURSIVE Join(_)
Join(ws) ==
    IF Len(ws) = 1 THEN ws[1] ELSE ws[1] \o <<",">> \o Join(Tail(ws))

\* the lists of up to MaxParts of these parts, and the name Display writes
\* for each file type, alone
ExtArgs ==
    {Join(ws) : ws \in UNION {[1..n -> ExtWords] : n \in 1..MaxParts}}
    \cup {FileType_fmt(t) : t \in FileType_all}

\* --ext <list> is given and not yet parsed; no file, one thread
ParseInit ==
    /\ InitShape(1, 0)
    /\ faultsLeft = 0
    /\ ext_arg \in {Some(a) : a \in ExtArgs}
    /\ extensions = None

\* argh parses the option with FileTypes::from_str (cli.rs line 127)
ParseExt ==
    /\ ext_arg # None
    /\ extensions = None
    /\ extensions' = Some(FileTypes_from_str(ext_arg[1]))
    /\ UNCHANGED <<args, files, idx, active, start_time, paused, state, pc, loc, writes,
                   tried, claims, stopRequested, faultsLeft,
                   now, last_active, non_success, progress, waits, ext_arg>>

ParseNext == ParseExt

ParseSpec == ParseInit /\ [][ParseNext]_vars

\* ------------------------------------------------------------- properties
\* thread t has file i in hand
Holds(t, i) ==
    /\ loc[t].i = i
    /\ pc[t] \in {"set_active", "wait_paused", "cv_wait", "cv_woken", "attempt",
                  "set_state", "post"}

\* file i was handed out and the thread that took it has moved on
Finished(i) == claims[i] > 0 /\ \A t \in Threads : ~Holds(t, i)

Returned == \A t \in Threads : pc[t] = "done"

\* C1: whenever completed() is true, every file has its outcome set, by
\* exactly one write.  Stated for the states the claim is least disputed
\* in: stop() was never called and every thread has returned from run().
C1_OutcomeOnceWhenCompleted ==
    (completed /\ ~stopRequested /\ Returned) =>
        \A i \in Items : state[i] # None /\ writes[i] = 1

\* C2: set_state is called at most once per file over the whole run, with
\* several threads and on the retry path.
C2_AtMostOneWrite == \A i \in Items : writes[i] <= 1

C2_Witness ==
    /\ Cardinality(Threads) > 1
    /\ \E i, j \in Items :
         /\ i # j
         /\ Len(tried[i]) = 2 /\ writes[i] = 1
         /\ writes[j] = 1

\* C3 as claimed: no two fetch_add calls ever return the same value.
C3_NoValueClaimedTwice == \A v \in DOMAIN claims : claims[v] <= 1

\* C3 as amended: no two fetch_add calls return the same index below N;
\* only the values at or past the end can repeat, once stop() has moved an
\* overshot cursor back to N.
C3_NoFileClaimedTwice == \A v \in DOMAIN claims : v < N => claims[v] <= 1

C3_Witness ==
    /\ stopRequested
    /\ claims[N] = 2
    /\ \E i \in Items : claims[i] = 1

\* C4: once stop() has run, every later fetch_add returns a value >= N, and
\* no file that was not handed out before is handed out after.
C4_NoFileIssuedAfterStop ==
    [][stopRequested =>
         /\ \A t \in Threads :
               (pc[t] = "next_file" /\ pc'[t] = "set_active") => loc'[t].i >= N
         /\ \A i \in Items : claims[i] = 0 => claims'[i] = 0]_vars

C4_Witness ==
    /\ stopRequested
    /\ \E t \in Threads : pc[t] = "set_active" /\ loc[t].i >= N
    /\ \E i \in Items : claims[i] = 0

\* C5 as claimed: after stop(), completed() eventually becomes true,
\* whatever the pause flag is.
C5_StopLeadsToCompleted == stopRequested ~> completed

\* C5 as amended: after stop(), completed() eventually becomes true provided
\* the pause flag is false from some point on; a thread that took a file and
\* blocks in wait_paused keeps its slot until the flag is toggled off.
C5_StopLeadsToCompletedOnceUnpaused ==
    <>[](~paused) => (stopRequested ~> completed)

C5_Witness ==
    /\ stopRequested
    /\ completed
    /\ \E i, j \in Items : state[i] # None /\ claims[j] = 0

\* the number of slots that show a file in progress
SlotsInProgress == Cardinality({t \in Threads : active[t] < N})

\* C6 as claimed: while the pause flag is true the number of slots that
\* hold a file index below N does not grow.
C6_SlotsDoNotGrowWhilePaused ==
    [][paused => SlotsInProgress' <= SlotsInProgress]_vars

\* C6 as amended: while the pause flag is true no thread starts a
\* conversion attempt (none gets past wait_paused).  The slots in progress
\* can still grow: a thread publishes the index it took before it waits.
C6_NoAttemptStartsWhilePaused ==
    [][paused => \A t \in Threads : pc'[t] = "attempt" => pc[t] = "attempt"]_vars

C6_Witness ==
    /\ paused
    /\ \E t, u \in Threads :
         /\ pc[t] = "cv_wait" /\ active[t] < N
         /\ pc[u] = "attempt"

\* C7: a toggle that turns the flag off wakes every thread blocked in
\* Condvar::wait, and if the flag then stays off each of them goes on to
\* its conversion attempt.
C7_ToggleWakesAllWaiters ==
    /\ [][(paused /\ ~paused') =>
            \A t \in Threads : pc[t] = "cv_wait" => pc'[t] = "cv_woken"]_vars
    /\ <>[](~paused) =>
          \A t \in 0..(MaxWorkers - 1) :
              (t \in Threads /\ pc[t] \in {"cv_wait", "cv_woken"})
                  ~> (t \in Threads /\ pc[t] = "attempt")

C7_Witness ==
    /\ ~paused
    /\ \E t, u \in Threads : t # u /\ pc[t] = "cv_woken" /\ pc[u] = "cv_woken"

\* the fallback quality is set and lower than the primary quality
FallbackLower(a) ==
    a.quality_if_inefficient # None /\ a.quality_if_inefficient[1] < a.quality

\* the file's size is at least the retry floor
AtLeastFloor(a, src) == src.len >= unwrap_or(a.min_inefficient_size, 0)

\* C8: a file (not forced to lossless) whose first try is rejected by the
\* ratio test, with a lower fallback quality and a size at least the retry
\* floor, is tried exactly twice; if the second try is rejected too its
\* outcome is Inefficient(input, output) and no output file is left.
C8_RejectedFileTriedTwice ==
    \A i \in Items :
        (/\ Finished(i)
         /\ ~LosslessJpeg(args, files[i])
         /\ tried[i] # << >>
         /\ tried[i][1].kind = "Rejected"
         /\ FallbackLower(args)
         /\ AtLeastFloor(args, files[i]))
        => /\ Len(tried[i]) = 2
           /\ tried[i][2].kind = "Rejected" =>
                 /\ state[i] # None
                 /\ state[i][1].tag = "Inefficient"
                 /\ state[i][1].input = files[i].len
                 /\ ~tried[i][2].left

\* C9: a JPEG under lossless_jpeg is tried exactly once, at quality 100,
\* whatever fallback quality and floor are set and however the try ends.
C9_LosslessTriedOnceAt100 ==
    \A i \in Items :
        LosslessJpeg(args, files[i]) =>
            /\ Len(tried[i]) <= 1
            /\ \A k \in 1..Len(tried[i]) : tried[i][k].quality = 100
            /\ Finished(i) => Len(tried[i]) = 1

C9_Witness ==
    \E i \in Items :
        /\ LosslessJpeg(args, files[i])
        /\ FallbackLower(args)
        /\ AtLeastFloor(args, files[i])
        /\ Finished(i)
        /\ tried[i][1].kind = "Rejected"

\* the first try of file i got past the destination check, the dimension
\* probe and the reformatting
Eligible(i) ==
    /\ tried[i] # << >>
    /\ tried[i][1].kind \notin {"Skipped", "ProbeError", "ReformatError"}

\* C10: in a dry run the encoder is never run, and every eligible file is
\* recorded Success(size, size).
C10_DryRunNeverEncodes ==
    args.dry_run =>
        \A i \in Items :
            /\ \A k \in 1..Len(tried[i]) : tried[i][k].cjxl = 0
            /\ (Finished(i) /\ Eligible(i)) =>
                  state[i] = Some(Success(files[i].len, files[i].len))

C10_Witness ==
    /\ args.dry_run
    /\ \E i \in Items :
         /\ Finished(i)
         /\ Eligible(i)
         /\ state[i] = Some(Success(files[i].len, files[i].len))

\* the last try made on file i
LastTry(i) == tried[i][Len(tried[i])]

\* file i has an outcome, and it is tag
Ended(i, tag) == state[i] # None /\ state[i][1].tag = tag

\* C11: a conversion whose output/input ratio equals min_ratio is accepted
\* and one whose output is larger than that is rejected, for all sizes: no
\* file is recorded Success or Warning with an output above min_ratio times
\* its input, none Inefficient with an output at or below it.
C11_RatioBoundary ==
    \A i \in Items :
        state[i] # None =>
            LET o == state[i][1] IN
            /\ o.tag \in {"Success", "Warning"} =>
                  o.output * args.min_ratio.den <= o.input * args.min_ratio.num
            /\ o.tag = "Inefficient" =>
                  o.output * args.min_ratio.den > o.input * args.min_ratio.num

\* the messages of a failed encoder run
EncoderFailures ==
    {"Conversion command failed", "Failed to execute conversion command"}

\* the files of type ext that ended in Error and whose thread has moved on
ErroredFiles(ext) ==
    {i \in Items : files[i].ext = ext /\ Finished(i) /\ Ended(i, "Error")}

\* C12: a file whose encoder run fails ends in Error with the diagnostic,
\* is in non_success under its completion time, and is counted once in its
\* type's errored counter; the run goes on: when every thread has returned
\* without a stop, every other file was tried as well.
C12_EncoderFailureIsolated ==
    /\ \A i \in Items :
          (/\ Finished(i)
           /\ tried[i] # << >>
           /\ LastTry(i).kind = "Error" /\ LastTry(i).cjxl = 1)
          => /\ Ended(i, "Error")
             /\ <<last_active[i], i>> \in non_success
    /\ \A ext \in FileTypes :
          progress[ext].errored = Cardinality(ErroredFiles(ext))
    /\ (Returned /\ ~stopRequested) => \A j \in Items : tried[j] # << >>

C12_Witness ==
    /\ Cardinality(Threads) = 2
    /\ Returned /\ ~stopRequested
    /\ \E i, j \in Items :
         /\ Ended(i, "Error") /\ state[i][1].msg \in EncoderFailures
         /\ progress[files[i].ext].errored = 1
         /\ Ended(j, "Success")

Processed == Sum([ext \in FileTypes |-> progress[ext].processed], FileTypes)

\* every file was tried once and accepted, with no failure anywhere
AllAcceptedClean ==
    /\ faultsLeft = MaxFaults
    /\ \A i \in Items : Len(tried[i]) = 1 /\ tried[i][1].kind = "Accepted"

\* C13: when every file's single try is accepted with nothing degraded,
\* the finished run has N Success outcomes, processed counters that sum to
\* N, errored and inefficient counters of 0 and an empty non_success.
C13_AllAccepted ==
    (completed /\ Returned /\ AllAcceptedClean) =>
        /\ \A i \in Items : Ended(i, "Success")
        /\ Processed = N
        /\ \A ext \in FileTypes :
              progress[ext].errored = 0 /\ progress[ext].inefficient = 0
        /\ non_success = {}

C13_Witness ==
    /\ completed /\ Returned /\ AllAcceptedClean
    /\ N = 2 /\ Cardinality(Threads) = 2
    /\ Processed = 2

\* C14: a file whose try is rejected by the ratio test and that gets no
\* further try ends as Inefficient(input, output), with its type's
\* inefficient counter incremented.
C14_RejectedEndsInefficient ==
    \A i \in Items :
        (Finished(i) /\ tried[i] # << >> /\ LastTry(i).kind = "Rejected") =>
            /\ Ended(i, "Inefficient")
            /\ state[i][1].input = files[i].len
            /\ progress[files[i].ext].inefficient >= 1

\* C15: a file whose first try ends otherwise than in a ratio rejection is
\* tried exactly once, so the encoder is not run for it again.
C15_OnlyRejectionRetries ==
    \A i \in Items :
        (tried[i] # << >> /\ tried[i][1].kind # "Rejected") => Len(tried[i]) = 1

C15_Witness ==
    \E i \in Items :
        /\ Finished(i)
        /\ ~LosslessJpeg(args, files[i])
        /\ FallbackLower(args)
        /\ AtLeastFloor(args, files[i])
        /\ tried[i][1].kind = "Error" /\ tried[i][1].cjxl = 1

Indexed == {e[2] : e \in non_success}

\* C16: every file that ended as Warning, Skipped, Error or Inefficient is
\* in non_success under its completion time once its thread has moved on;
\* no file in non_success has ended as Success; when the run is over the
\* indexed files are exactly those with an outcome other than Success.
C16_IndexHoldsNonSuccess ==
    /\ \A i \in Items :
          (Finished(i) /\ state[i] # None /\ ~Ended(i, "Success"))
              => <<last_active[i], i>> \in non_success
    /\ \A i \in Indexed : state[i] # None /\ ~Ended(i, "Success")
    /\ (completed /\ Returned) =>
          Indexed = {i \in Items : state[i] # None /\ ~Ended(i, "Success")}

C16_Witness ==
    /\ completed /\ Returned
    /\ \E i, j \in Items :
         /\ Ended(i, "Warning") /\ i \in Indexed
         /\ Ended(j, "Success") /\ j \notin Indexed

\* C17: no file index is in two entries of non_success.
C17_IndexedOnce ==
    \A a, b \in non_success : a[2] = b[2] => a = b

C17_Witness ==
    /\ Cardinality(Threads) = 2
    /\ Cardinality(non_success) = 2
    /\ \E a, b \in non_success : a[1] = b[1] /\ a[2] # b[2]

\* C18: the order the display uses, the reverse iteration over non_success,
\* lists the entries most recently completed first: the completion times
\* do not increase along it.
C18_MostRecentFirst ==
    \A k \in 1..(Len(DisplayOrder) - 1) :
        DisplayOrder[k][1] >= DisplayOrder[k + 1][1]

\* C19 as claimed: the cursor lies in 0..N.
C19_CursorWithinList == idx \in 0..N

\* C19 as amended: the cursor lies in 0..(N + P) for P worker threads; the
\* last fetch_add of each thread, the one that tells it the list is used
\* up, moves the cursor past N.
C19_CursorWithinListAndThreads == idx \in 0..(N + Cardinality(Threads))

C19_Witness ==
    /\ N > 0
    /\ Cardinality(Threads) = 2
    /\ idx = N + 2

\* C20 as claimed: no step lowers the cursor.
C20_CursorNeverLowered == [][idx' >= idx]_vars

\* C20 as amended: no fetch_add lowers the cursor; stop() stores N, which
\* lowers it only from a value above N, where the threads' last fetch_adds
\* had put it, and never below N.
C20_CursorLoweredOnlyToEnd ==
    [][idx' < idx =>
         /\ idx' = N
         /\ stopRequested'
         /\ \A t \in Threads : pc'[t] = pc[t]]_vars

C20_Witness ==
    /\ stopRequested
    /\ idx = N
    /\ claims[N] >= 1
    /\ \E i \in Items : claims[i] = 1

\* ---------------------------------------------------------------- C21
\* the files of type ext recorded as Success or Warning
Converted(ext) ==
    {i \in Items : files[i].ext = ext /\ Finished(i)
                    /\ (Ended(i, "Success") \/ Ended(i, "Warning"))}

\* C21: once every thread has returned, the processed counter of each file
\* type is the number of its files recorded as Success or Warning, and the
\* type's input and output bytes are the sums of the sizes those outcomes
\* carry, dry runs included.
C21_ProcessedCountsAccepted ==
    Returned =>
        \A ext \in FileTypes :
            /\ progress[ext].processed = Cardinality(Converted(ext))
            /\ progress[ext].input_bytes =
                  Sum([i \in Items |-> state[i][1].input], Converted(ext))
            /\ progress[ext].output_bytes =
                  Sum([i \in Items |-> state[i][1].output], Converted(ext))

\* ---------------------------------------------------------------- C22
InefficientFiles(ext) ==
    {i \in Items : files[i].ext = ext /\ Finished(i) /\ Ended(i, "Inefficient")}

\* the files of type ext whose last try was accepted by the ratio test
AcceptedFiles(ext) ==
    {i \in Items : files[i].ext = ext /\ Finished(i) /\ tried[i] # << >>
                    /\ LastTry(i).kind = "Accepted"}

Lens == [i \in Items |-> files[i].len]

\* C22: the errored counter of each file type is the number of its files
\* recorded as Error, the inefficient counter the number recorded as
\* Inefficient, and total_bytes is the seeded sum less the sizes of exactly
\* those files; the other counters are moved by accepted conversions only.
C22_ExcludedFilesAccounted ==
    \A ext \in FileTypes :
        /\ progress[ext].errored = Cardinality(ErroredFiles(ext))
        /\ progress[ext].inefficient = Cardinality(InefficientFiles(ext))
        /\ progress[ext].total_bytes =
              SeededBytes(files, ext)
              - Sum(Lens, ErroredFiles(ext) \cup InefficientFiles(ext))
        /\ progress[ext].processed = Cardinality(AcceptedFiles(ext))
        /\ progress[ext].input_bytes = Sum(Lens, AcceptedFiles(ext))
        /\ progress[ext].output_bytes =
              Sum([i \in Items |-> state[i][1].output], AcceptedFiles(ext))

C22_Witness ==
    /\ Returned
    /\ \E i, j \in Items :
          /\ i \in ErroredFiles(files[i].ext)
          /\ j \in InefficientFiles(files[j].ext)
          /\ progress[files[i].ext].errored = 1
          /\ progress[files[i].ext].total_bytes = 0
          /\ progress[files[j].ext].inefficient = 1
          /\ progress[files[j].ext].total_bytes = 0

\* ---------------------------------------------------------------- C23
\* file i has its outcome, written by a try the ratio test accepted
RecordedAccepted(i) ==
    state[i] # None /\ tried[i] # << >> /\ LastTry(i).kind = "Accepted"

\* C23 as stated: a file whose accepted try is recorded is a Warning
\* exactly when set_times or the delete/truncation of the source failed
\* during that try.
C23_WarningIffDegraded ==
    \A i \in Items :
        RecordedAccepted(i) => (Ended(i, "Warning") <=> LastTry(i).degraded)

\* C23, amended: an accepted try is recorded as Warning exactly when a
\* degraded operation occurred or the try was the second one, at the
\* fallback quality; otherwise it is recorded as Success.  It is never
\* recorded as Error, and its output file is left in place.
C23_WarningIffDegradedOrFallback ==
    \A i \in Items :
        RecordedAccepted(i) =>
            /\ Ended(i, "Warning") <=> (LastTry(i).degraded \/ Len(tried[i]) = 2)
            /\ Ended(i, "Warning") \/ Ended(i, "Success")
            /\ LastTry(i).left
            /\ state[i][1].output > 0

C23_Witness ==
    \E i, j \in Items :
        /\ Finished(i) /\ RecordedAccepted(i)
        /\ Len(tried[i]) = 2 /\ ~LastTry(i).degraded
        /\ Ended(i, "Warning")
        /\ Finished(j) /\ RecordedAccepted(j)
        /\ Len(tried[j]) = 1 /\ LastTry(j).degraded
        /\ Ended(j, "Warning")

\* ---------------------------------------------------------------- C24
\* the first try of file i was rejected and next_file's conditions for a
\* second try at the fallback quality are met
FallbackDue(i) ==
    /\ tried[i][1].kind = "Rejected"
    /\ ~LosslessJpeg(args, files[i])
    /\ FallbackLower(args)
    /\ LargeEnough(args, files[i].len)

\* file i was served as a run without stop() serves it: the tries its
\* first result calls for were made, and the outcome is the one its last
\* try leads to (none after a single rejected try, as without a stop)
Served(i) ==
    /\ tried[i] # << >>
    /\ Len(tried[i]) = IF FallbackDue(i) THEN 2 ELSE 1
    /\ writes[i] <= 1
    /\ CASE LastTry(i).kind = "Accepted" ->
                Ended(i, "Success") \/ Ended(i, "Warning")
         [] LastTry(i).kind = "DryRun" -> Ended(i, "Success")
         [] LastTry(i).kind = "Skipped" -> Ended(i, "Skipped")
         [] LastTry(i).kind = "Rejected" ->
                IF Len(tried[i]) = 2 THEN Ended(i, "Inefficient")
                ELSE state[i] = None
         [] OTHER -> Ended(i, "Error")

\* C24: stop() abandons no file that was handed out.  A file a thread has
\* let go of was served in full, whether or not stop() was called; and,
\* if the pause flag is false from some point on, every file handed out
\* by the time of the stop is eventually let go of, served in full.
C24_StopAbandonsNoClaimedItem ==
    /\ [](\A i \in Items : Finished(i) => Served(i))
    /\ <>[](~paused) =>
          \A i \in 0..(MaxItems - 1) :
              (stopRequested /\ i \in Items /\ claims[i] > 0)
                  ~> (i \in Items /\ Finished(i) /\ Served(i))

C24_Witness ==
    /\ stopRequested
    /\ \E t \in Threads, i \in Items :
          /\ Holds(t, i)
          /\ pc[t] = "attempt"
          /\ loc[t].tries = 2

\* ---------------------------------------------------------------- C25
\* the trimmed parts of the --ext argument
ExtParts == [k \in DOMAIN split(ext_arg[1]) |-> trim(split(ext_arg[1])[k])]

HasStar == \E k \in DOMAIN ExtParts : ExtParts[k] = <<"*">>

NamesJxl(part) == FileType_from_str(part) = Some("JXL")

JxlBeforeStar ==
    \E k \in DOMAIN ExtParts :
        /\ NamesJxl(ExtParts[k])
        /\ \E m \in DOMAIN ExtParts : m > k /\ ExtParts[m] = <<"*">>

\* C25: a parsed --ext list that contains "*", and otherwise only names of
\* file types, parsed successfully, to every file type other than JXL,
\* with JXL if "jxl" was listed before the star and without it if "jxl"
\* was not listed at all.
C25_StarParsesToAll ==
    (/\ ext_arg # None
     /\ extensions # None
     /\ HasStar
     /\ \A k \in DOMAIN ExtParts :
            ExtParts[k] = <<"*">> \/ FileType_from_str(ExtParts[k]) # None)
    => /\ extensions[1].ok
       /\ extensions[1].set \ {"JXL"} = FileType_all \ {"JXL"}
       /\ JxlBeforeStar => "JXL" \in extensions[1].set
       /\ (\A k \in DOMAIN ExtParts : ~NamesJxl(ExtParts[k]))
            => "JXL" \notin extensions[1].set

\* ---------------------------------------------------------------- C26
\* C26: with min_ratio 1.0 a file whose conversion is kept (recorded as
\* Success or Warning by a try that ran the encoder) has an output
\* strictly smaller than the input.
C26_KeptOnlyIfSmaller ==
    \A i \in Items :
        (/\ args.min_ratio = Ratio(1, 1)
         /\ RecordedAccepted(i)) => state[i][1].output < state[i][1].input

InTry(i) ==
    \E t \in Threads :
        loc[t].i = i /\ pc[t] \in {"cv_wait", "cv_woken", "attempt"}

EncoderRuns(i) == Sum([k \in DOMAIN tried[i] |-> tried[i][k].cjxl], DOMAIN tried[i])

\* C28: no file is tried more than twice, nor is the encoder run for it
\* more than twice; a second try is made at quality_if_inefficient, which
\* is strictly lower than the quality of the first try.
C28_AtMostTwoTries ==
    \A i \in Items :
        /\ Len(tried[i]) <= 2
        /\ EncoderRuns(i) <= 2
        /\ \A t \in Threads : loc[t].tries <= 2
        /\ Len(tried[i]) = 2 =>
              /\ args.quality_if_inefficient # None
              /\ tried[i][2].quality = args.quality_if_inefficient[1]
              /\ tried[i][2].quality < tried[i][1].quality

C28_Witness ==
    \E i \in Items :
        /\ Finished(i)
        /\ Len(tried[i]) = 2
        /\ EncoderRuns(i) = 2
        /\ tried[i][2].kind = "Rejected"

ShowsOwnFile(t) ==
    /\ active[t] \in Items
    /\ claims[active[t]] > 0
    /\ \/ Holds(t, active[t])
       \/ pc[t] \in {"next_file", "set_active"}

C31_NoIntermediateFileLeft ==
    \A i \in Items : \A k \in DOMAIN tried[i] : ~tried[i][k].tmp.left

C31_Witness ==
    /\ \E i \in Items :
          /\ Len(tried[i]) = 2
          /\ tried[i][1].tmp.made /\ tried[i][1].kind = "Rejected"
          /\ tried[i][2].tmp.made /\ tried[i][2].kind = "Accepted"
          /\ Finished(i)

\* ---------------------------------------------------------------- C32
\* the slots that hold an item in flight
InFlight == {t \in Threads : active[t] \in Items}

\* C32: while there is something to estimate, the estimated time is reduced
\* by the time spent so far on the items in flight and by nothing else: a
\* slot that shows the sentinel takes nothing off.
C32_EtaReducedByInFlightOnly ==
    stats(progress).total_bytes # 0 =>
        eta_reduction(start_time, now) =
            Sum([t \in Threads |-> saturating_sub(now, start_time[t])],
                InFlight)

\* ---------------------------------------------------------------- C33
\* C33: if stop() is never called and the pause flag is false from some
\* point on, then every thread eventually leaves run() and completed()
\* eventually holds, with every file handed out.
C33_RunTerminates ==
    ([](~stopRequested) /\ <>[](~paused)) =>
        <>(/\ Returned
           /\ completed
           /\ \A i \in Items : claims[i] = 1)

C33_Witness ==
    /\ ~stopRequested
    /\ Returned
    /\ completed
    /\ N = MaxItems
    /\ Cardinality(Threads) = MaxWorkers
    /\ \E i \in Items : waits[i] = 2

\* ---------------------------------------------------------------- C34
\* C34 as stated: no step takes a state in which completed() is true to
\* one in which it is false.
C34_CompletedStable == [][completed => completed']_vars

\* C34, amended: completed() is true only when every thread either has
\* returned from run() or has not yet stored its first index in its slot;
\* once every thread has returned, no step, stop() included, makes it
\* false again.
C34_CompletedStableOnceReturned ==
    [][/\ completed =>
             \A t \in Threads :
                 \/ pc[t] = "done"
                 \/ pc[t] \in {"next_file", "set_active"} /\ active[t] = UsizeMax
       /\ (completed /\ Returned) => (completed' /\ Returned')]_vars

C34_Witness ==
    /\ completed
    /\ Returned
    /\ stopRequested
    /\ idx = N
    /\ N > 0
    /\ \E i \in Items : claims[i] = 0

\* ---------------------------------------------------------------- C35
\* the files of type ext whose size was taken out of the budget
ExcludedFiles(ext) == ErroredFiles(ext) \cup InefficientFiles(ext)

\* C35: for every file type the budget total_bytes never goes below zero
\* (the counters are kept as integers here, so an underflow of the u64
\* would show as a negative value), it is the seeded sum less the sizes of
\* the files recorded as Error or Inefficient, each taken out once, and
\* input_bytes never exceeds it.
C35_BudgetNeverUnderflows ==
    \A ext \in FileTypes :
        /\ progress[ext].total_bytes >= 0
        /\ progress[ext].total_bytes =
              SeededBytes(files, ext) - Sum(Lens, ExcludedFiles(ext))
        /\ progress[ext].errored + progress[ext].inefficient =
              Cardinality(ExcludedFiles(ext))
        /\ ErroredFiles(ext) \cap InefficientFiles(ext) = {}
        /\ progress[ext].input_bytes <= progress[ext].total_bytes

C35_Witness ==
    /\ Returned
    /\ \E e1, e2 \in FileTypes :
          /\ SeededBytes(files, e1) > 0
          /\ progress[e1].total_bytes = 0
          /\ progress[e1].errored = 1
          /\ progress[e2].total_bytes > 0
          /\ progress[e2].input_bytes = progress[e2].total_bytes

\* ---------------------------------------------------------------- C36
\* C36: when the run has completed without stop(), every file type's
\* input_bytes equals its total_bytes and the progress stats() reports is
\* exactly 1.
C36_CompletedMeansAllBytesIn ==
    (completed /\ Returned /\ ~stopRequested) =>
        /\ \A ext \in FileTypes :
              progress[ext].input_bytes = progress[ext].total_bytes
        /\ stats(progress).progress_is_one

\* ---------------------------------------------------------------- C37
\* C37: the processed, errored and inefficient counts of stats() are the
\* sums of the counters of all file types.
C37_AggregateCountsAllTypes ==
    /\ stats(progress).processed =
          Sum([ext \in FileTypes |-> progress[ext].processed], FileTypes)
    /\ stats(progress).errored =
          Sum([ext \in FileTypes |-> progress[ext].errored], FileTypes)
    /\ stats(progress).inefficient =
          Sum([ext \in FileTypes |-> progress[ext].inefficient], FileTypes)

\* ---------------------------------------------------------------- C38
\* C38: the subtraction input_bytes - output_bytes of stats() never goes
\* below zero, for any file type it is made for.
C38_SavingsNeverUnderflow == ~stats(progress).underflow

\* ---------------------------------------------------------------- C39
\* C39: no two threads' slots show the same file of the list, and a slot
\* changes only in a step of its own thread, at one of its two stores.
C39_SlotsDistinctAndOwned ==
    /\ [](\A t, u \in Threads :
             (t # u /\ active[t] = active[u]) => active[t] \notin Items)
    /\ [][\A t \in Threads :
             active'[t] # active[t] =>
                 /\ pc[t] \in {"set_active", "exit"}
                 /\ pc'[t] # pc[t]
                 /\ \A u \in Threads \ {t} : pc'[u] = pc[u] /\ active'[u] = active[u]]_vars

C39_Witness ==
    \E t, u \in Threads :
        /\ t # u
        /\ active[t] \in Items /\ active[u] \in Items
        /\ pc[t] = "attempt" /\ pc[u] = "attempt"
        /\ Holds(t, active[t]) /\ Holds(u, active[u])

\* ---------------------------------------------------------------- C40
\* C40: an --ext argument that is the string Display writes for a file
\* type t parses to t alone: FromStr undoes Display for all 14 variants.
C40_FromStrUndoesDisplay ==
    \A t \in FileType_all :
        (/\ ext_arg = Some(FileType_fmt(t))
         /\ extensions # None)
        => /\ FileType_from_str(FileType_fmt(t)) = Some(t)
           /\ extensions[1] = Ok({t})

====
